---- MODULE Spec2Model ----
(***************************************************************************)
(* seller.py: synchronisation of the stocks and prices of an Ozon shop     *)
(* with the stock file of a supplier.                                      *)
(*                                                                         *)
(* Python strings that the program takes apart (the "Количество" and       *)
(* "Цена" cells) are sequences of one-character strings; offer ids, which  *)
(* the program only compares, are strings.  A supplier record is           *)
(* [Kod, Kolichestvo, Tsena] for the columns "Код", "Количество", "Цена".  *)
(***************************************************************************)
EXTENDS Integers, Sequences, FiniteSets, TLC

VARIABLES
    entry,           \* the function that runs
    pc,              \* its position
    watch_remnants,  \* the supplier records
    last_id,         \* get_offer_ids: the cursor of the next listing call
    product_list,    \* get_offer_ids: the items accumulated
    offer_ids,       \* the caller's list of offer ids
    listed,          \* history: offer_ids as get_offer_ids returned it
    stocks,          \* the result of create_stocks
    prices,          \* the result of create_prices
    chunks,          \* list(divide(...)): the batches not yet submitted
    requests,        \* history: every external call, in order
    pages,           \* history: every answer of get_product_list
    exc,             \* the exception that ended the run, "None" without one
    ret,             \* what the function returned
    lst,             \* divide: its list argument
    n                \* divide: its size argument

vars == <<entry, pc, watch_remnants, last_id, product_list, offer_ids, listed,
          stocks, prices, chunks, requests, pages, exc, ret, lst, n>>

-----------------------------------------------------------------------------
(* Bounds of the model *)

MaxCalls == 2       \* listing calls in one enumeration
MaxRemnants == 2    \* supplier records in a run of a driver
MaxRecords == 2     \* supplier records in a direct call
MaxLst == 3         \* length of the list given to divide

-----------------------------------------------------------------------------
(* Python built-ins *)

Digit == {"0", "1", "2", "3", "4", "5", "6", "7", "8", "9"}

DigitValue(c) ==
    CASE c = "0" -> 0 [] c = "1" -> 1 [] c = "2" -> 2 [] c = "3" -> 3
      [] c = "4" -> 4 [] c = "5" -> 5 [] c = "6" -> 6 [] c = "7" -> 7
      [] c = "8" -> 8 [] c = "9" -> 9

RECURSIVE DecimalValue(_)
DecimalValue(s) ==
    IF s = <<>> THEN 0
    ELSE 10 * DecimalValue(SubSeq(s, 1, Len(s) - 1)) + DigitValue(s[Len(s)])

\* int(s) of a string: an optional sign, then digits; anything else raises.
int(s) ==
    LET signed == s # <<>> /\ Head(s) \in {"+", "-"}
        body   == IF signed THEN Tail(s) ELSE s
    IN  IF body # <<>> /\ \A i \in 1..Len(body) : body[i] \in Digit
        THEN [exc |-> "None",
              val |-> IF signed /\ Head(s) = "-" THEN 0 - DecimalValue(body)
                      ELSE DecimalValue(body)]
        ELSE [exc |-> "ValueError", val |-> 0]

\* str(code) of the integer cell "Код"
str(code) == ToString(code)

\* x in l
In(x, l) == \E i \in 1..Len(l) : l[i] = x

\* a remove that removes nothing
list_remove_none(l, x) == l

\* l.remove(x): l without the first occurrence of x (x is in l)
list_remove(l, x) ==
    LET first == CHOOSE i \in 1..Len(l) :
                     l[i] = x /\ \A j \in 1..(i - 1) : l[j] # x
    IN  SubSeq(l, 1, first - 1) \o SubSeq(l, first + 1, Len(l))

\* list(range(0, stop, step)) for stop >= 0
range(stop, step) ==
    IF step = 0 THEN [exc |-> "ValueError", val |-> <<>>]
    ELSE IF step < 0 \/ stop = 0 THEN [exc |-> "None", val |-> <<>>]
    ELSE [exc |-> "None",
          val |-> [k \in 1..(((stop - 1) \div step) + 1) |-> (k - 1) * step]]

\* l[i : j] for 0 <= i <= j
slice(l, i, j) == SubSeq(l, i + 1, IF j < Len(l) THEN j ELSE Len(l))

RECURSIVE Concat(_)
Concat(ss) == IF ss = <<>> THEN <<>> ELSE Head(ss) \o Concat(Tail(ss))

-----------------------------------------------------------------------------
(* The pure functions of seller.py *)

\* a stock that counts a quantity it cannot read as 0
stock_of_lenient(watch) ==
    LET count == watch.Kolichestvo
    IN  IF count = <<">", "1", "0">> THEN [exc |-> "None", val |-> 100]
        ELSE IF count = <<"1">> THEN [exc |-> "None", val |-> 0]
        ELSE IF int(count).exc # "None" THEN [exc |-> "None", val |-> 0]
        ELSE int(count)

\* the stock of one matched record: lines 221-227
stock_of(watch) ==
    LET count == watch.Kolichestvo
    IN  IF count = <<">", "1", "0">> THEN [exc |-> "None", val |-> 100]
        ELSE IF count = <<"1">> THEN [exc |-> "None", val |-> 0]
        ELSE int(watch.Kolichestvo)

\* the first loop of create_stocks, lines 219-229: acc is stocks so far, ids
\* the list offer_ids as the loop has left it
RECURSIVE stocks_loop(_, _, _)
stocks_loop(watches, ids, acc) ==
    IF watches = <<>> THEN [exc |-> "None", stocks |-> acc, offer_ids |-> ids]
    ELSE LET watch == Head(watches)
         IN  IF In(str(watch.Kod), ids)
             THEN LET stock == stock_of(watch)
                  IN  IF stock.exc # "None"
                      THEN [exc |-> stock.exc, stocks |-> acc, offer_ids |-> ids]
                      ELSE stocks_loop(
                               Tail(watches),
                               list_remove(ids, str(watch.Kod)),
                               Append(acc, [offer_id |-> str(watch.Kod),
                                            stock |-> stock.val]))
             ELSE stocks_loop(Tail(watches), ids, acc)

\* the second loop of create_stocks, lines 231-232
zero_fill(ids) == [i \in 1..Len(ids) |-> [offer_id |-> ids[i], stock |-> 0]]

\* create_stocks: the list it returns (or the exception it raises) and the
\* list object offer_ids as the call leaves it
create_stocks(remnants, ids) ==
    LET scan == stocks_loop(remnants, ids, <<>>)
    IN  IF scan.exc # "None" THEN scan
        ELSE [exc |-> "None",
              stocks |-> scan.stocks \o zero_fill(scan.offer_ids),
              offer_ids |-> scan.offer_ids]

\* price.split(".")[0]
RECURSIVE before_dot(_)
before_dot(price) ==
    IF price = <<>> \/ Head(price) = "." THEN <<>>
    ELSE <<Head(price)>> \o before_dot(Tail(price))

\* price_conversion, line 285
price_conversion(price) == SelectSeq(before_dot(price), LAMBDA c : c \in Digit)

\* the price entry of one record, lines 255-261
price_of(watch) ==
    [auto_action_enabled |-> "UNKNOWN",
     currency_code |-> "RUB",
     offer_id |-> str(watch.Kod),
     old_price |-> "0",
     price |-> price_conversion(watch.Tsena)]

\* a create_prices that drops an offer id once a record has matched it
RECURSIVE create_prices_dedup(_, _)
create_prices_dedup(remnants, ids) ==
    IF remnants = <<>> THEN <<>>
    ELSE IF In(str(Head(remnants).Kod), ids)
         THEN <<price_of(Head(remnants))>>
              \o create_prices_dedup(Tail(remnants),
                                     list_remove(ids, str(Head(remnants).Kod)))
         ELSE create_prices_dedup(Tail(remnants), ids)

\* create_prices, lines 252-263
RECURSIVE create_prices(_, _)
create_prices(remnants, ids) ==
    IF remnants = <<>> THEN <<>>
    ELSE (IF In(str(Head(remnants).Kod), ids)
          THEN <<price_of(Head(remnants))>> ELSE <<>>)
         \o create_prices(Tail(remnants), ids)

\* a divide whose slices all end at size: l[i : size]
divide_fixed_end(l, size) ==
    LET starts == range(Len(l), size)
    IN  IF starts.exc # "None" THEN [exc |-> starts.exc, chunks |-> <<>>]
        ELSE [exc |-> "None",
              chunks |-> [k \in 1..Len(starts.val) |->
                             IF starts.val[k] <= size
                             THEN slice(l, starts.val[k], size) ELSE <<>>]]

\* list(divide(l, size)), lines 313-314
divide(l, size) ==
    LET starts == range(Len(l), size)
    IN  IF starts.exc # "None" THEN [exc |-> starts.exc, chunks |-> <<>>]
        ELSE [exc |-> "None",
              chunks |-> [k \in 1..Len(starts.val) |->
                             slice(l, starts.val[k], starts.val[k] + size)]]

-----------------------------------------------------------------------------
(* The inputs the model draws *)

RECURSIVE SeqsUpTo(_, _)
SeqsUpTo(S, k) ==
    IF k = 0 THEN {<<>>}
    ELSE LET shorter == SeqsUpTo(S, k - 1)
         IN  shorter \cup {Append(s, x) : s \in {t \in shorter : Len(t) = k - 1}, x \in S}

Codes == {1, 2}

\* ">10", "1", "7", "-5", "x"
Quantities == {<<">", "1", "0">>, <<"1">>, <<"7">>, <<"-", "5">>, <<"x">>}

\* "5'990.00 r.", "12."
Prices == {<<"5", "'", "9", "9", "0", ".", "0", "0", " ", "r", ".">>,
           <<"1", "2", ".">>}

\* what a direct call of create_stocks or create_prices is given
Records == [Kod : Codes, Kolichestvo : Quantities, Tsena : Prices]

\* the lists of offer ids of a direct call: each id once, as in the catalog
OfferIdLists ==
    {ids \in SeqsUpTo({"1", "2", "3"}, 3) :
        \A i, j \in 1..Len(ids) : ids[i] = ids[j] => i = j}

\* what the supplier's file holds in a run of a driver
RunRecords == [Kod : Codes, Kolichestvo : {<<"7">>, <<"x">>},
               Tsena : {<<"1", "2", ".">>}]

\* the numbers of items get_product_list answers with
PageSizes == {0, 1, 100}

-----------------------------------------------------------------------------
(* The drivers: main, upload_stocks, upload_prices *)

\* an exception that is noted and does not leave the driver
raise_swallowed(e) ==
    /\ exc' = e
    /\ pc' = pc

\* an exception leaves the driver: main catches it and prints (lines
\* 379-384), upload_stocks and upload_prices let it through
raise(e) ==
    /\ exc' = e
    /\ pc' = IF entry = "main" THEN "except" ELSE "raised"

\* what get_product_list answers after `count` items: the next `size`
\* products of the catalog, the total it reports and its cursor
answers(count) ==
    UNION {{[items |-> [k \in 1..size |-> [product_id |-> count + k,
                                           offer_id |-> ToString(count + k)]],
             total |-> total,
             last_id |-> ToString(count + size)] :
               total \in {t \in {count + size - 1, count + size,
                                  count + size + 1} : t >= 0}} :
           size \in PageSizes}

\* the cursor of the next call, line 84
next_last_id(some_prod) == some_prod.last_id

\* a test that ends the loop as soon as total is reached or passed
enumerated_at_least(total, products) == Len(products) >= total

\* the test that ends the loop of get_offer_ids, line 85
enumerated(total, products) == total = Len(products)

\* where a driver goes once get_offer_ids has returned
after_get_offer_ids ==
    CASE entry = "main" -> "download_stock"
      [] entry = "upload_stocks" -> "create_stocks"
      [] entry = "upload_prices" -> "create_prices"

\* one turn of the loop of get_offer_ids, lines 81-86, and lines 87-90 after
\* the last one
get_offer_ids ==
    /\ pc = "get_offer_ids"
    /\ Len(pages) < MaxCalls
    /\ \/ /\ requests' = Append(requests, [api |-> "get_product_list",
                                           arg |-> last_id, ok |-> FALSE])
          /\ raise("HTTPError")
          /\ UNCHANGED <<last_id, product_list, offer_ids, listed, pages>>
       \/ \E some_prod \in answers(Len(product_list)) :
             /\ requests' = Append(requests, [api |-> "get_product_list",
                                              arg |-> last_id, ok |-> TRUE])
             /\ pages' = Append(pages, some_prod)
             /\ product_list' = product_list \o some_prod.items
             /\ last_id' = next_last_id(some_prod)
             /\ IF enumerated(some_prod.total, product_list')
                THEN /\ offer_ids' = [i \in 1..Len(product_list') |->
                                         product_list'[i].offer_id]
                     /\ listed' = offer_ids'
                     /\ pc' = after_get_offer_ids
                ELSE UNCHANGED <<offer_ids, listed, pc>>
             /\ exc' = exc
    /\ UNCHANGED <<entry, watch_remnants, stocks, prices, chunks, ret, lst, n>>

\* download_stock, lines 185-200, called by main
download_stock ==
    /\ pc = "download_stock"
    /\ \/ /\ requests' = Append(requests, [api |-> "download_stock",
                                           arg |-> "", ok |-> FALSE])
          /\ raise("HTTPError")
          /\ UNCHANGED watch_remnants
       \/ \E remnants \in SeqsUpTo(RunRecords, MaxRemnants) :
             /\ requests' = Append(requests, [api |-> "download_stock",
                                              arg |-> "", ok |-> TRUE])
             /\ watch_remnants' = remnants
             /\ pc' = "create_stocks"
             /\ exc' = exc
    /\ UNCHANGED <<entry, last_id, product_list, offer_ids, listed, stocks,
                   prices, chunks, pages, ret, lst, n>>

StockChunk == 100       \* main, line 373, and upload_stocks, line 358
MainPriceChunk == 900   \* main, line 377
PriceChunk == 1000      \* upload_prices, line 335

after_update_stocks == IF entry = "main" THEN "create_prices" ELSE "return"

after_update_price == IF entry = "main" THEN "done" ELSE "return"

\* main, lines 372-373, and upload_stocks, lines 357-358: the stocks and
\* the list of their batches
build_stocks ==
    /\ pc = "create_stocks"
    /\ LET made == create_stocks(watch_remnants, offer_ids)
       IN  /\ offer_ids' = made.offer_ids
           /\ IF made.exc # "None"
              THEN /\ raise(made.exc)
                   /\ UNCHANGED <<stocks, chunks>>
              ELSE /\ stocks' = made.stocks
                   /\ chunks' = divide(made.stocks, StockChunk).chunks
                   /\ pc' = IF chunks' = <<>> THEN after_update_stocks
                            ELSE "update_stocks"
                   /\ exc' = exc
    /\ UNCHANGED <<entry, watch_remnants, last_id, product_list, listed,
                   prices, requests, pages, ret, lst, n>>

\* one turn of the loop over the batches, lines 373-374 and 358-359
update_stocks ==
    /\ pc = "update_stocks"
    /\ \E ok \in BOOLEAN :
          /\ requests' = Append(requests, [api |-> "update_stocks",
                                           arg |-> Head(chunks), ok |-> ok])
          /\ IF ok
             THEN /\ chunks' = Tail(chunks)
                  /\ pc' = IF chunks' = <<>> THEN after_update_stocks ELSE pc
                  /\ exc' = exc
             ELSE /\ raise("HTTPError")
                  /\ UNCHANGED chunks
    /\ UNCHANGED <<entry, watch_remnants, last_id, product_list, offer_ids,
                   listed, stocks, prices, pages, ret, lst, n>>

\* main, lines 376-377, and upload_prices, lines 334-335
build_prices ==
    /\ pc = "create_prices"
    /\ prices' = create_prices(watch_remnants, offer_ids)
    /\ chunks' = divide(prices', IF entry = "main" THEN MainPriceChunk
                                 ELSE PriceChunk).chunks
    /\ pc' = IF chunks' = <<>> THEN after_update_price ELSE "update_price"
    /\ UNCHANGED <<entry, watch_remnants, last_id, product_list, offer_ids,
                   listed, stocks, requests, pages, exc, ret, lst, n>>

\* one turn of the loop over the batches, lines 377-378 and 335-336
update_price ==
    /\ pc = "update_price"
    /\ \E ok \in BOOLEAN :
          /\ requests' = Append(requests, [api |-> "update_price",
                                           arg |-> Head(chunks), ok |-> ok])
          /\ IF ok
             THEN /\ chunks' = Tail(chunks)
                  /\ pc' = IF chunks' = <<>> THEN after_update_price ELSE pc
                  /\ exc' = exc
             ELSE /\ raise("HTTPError")
                  /\ UNCHANGED chunks
    /\ UNCHANGED <<entry, watch_remnants, last_id, product_list, offer_ids,
                   listed, stocks, prices, pages, ret, lst, n>>

\* upload_stocks, lines 360-361, and upload_prices, line 337
return ==
    /\ pc = "return"
    /\ ret' = IF entry = "upload_stocks"
              THEN <<[not_empty |-> SelectSeq(stocks, LAMBDA stock : stock.stock # 0),
                      stocks |-> stocks]>>
              ELSE <<prices>>
    /\ pc' = "done"
    /\ UNCHANGED <<entry, watch_remnants, last_id, product_list, offer_ids,
                   listed, stocks, prices, chunks, requests, pages, exc, lst, n>>

\* main fetches the supplier's file itself; upload_stocks and upload_prices
\* are given the records
Init ==
    /\ entry \in {"main", "upload_stocks", "upload_prices"}
    /\ pc = "get_offer_ids"
    /\ watch_remnants \in IF entry = "main" THEN {<<>>}
                          ELSE SeqsUpTo(RunRecords, MaxRemnants)
    /\ last_id = ""
    /\ product_list = <<>>
    /\ offer_ids = <<>>
    /\ listed = <<>>
    /\ stocks = <<>>
    /\ prices = <<>>
    /\ chunks = <<>>
    /\ requests = <<>>
    /\ pages = <<>>
    /\ exc = "None"
    /\ ret = <<>>
    /\ lst = <<>>
    /\ n = 0

Next ==
    \/ get_offer_ids
    \/ download_stock
    \/ build_stocks
    \/ update_stocks
    \/ build_prices
    \/ update_price
    \/ return

Spec == Init /\ [][Next]_vars

-----------------------------------------------------------------------------
(* Direct calls of create_stocks, create_prices and divide *)

\* the sizes divide is called with
Sizes == (0 - 2)..(MaxLst + 1)

call_create_stocks ==
    /\ pc = "call"
    /\ entry = "create_stocks"
    /\ LET made == create_stocks(watch_remnants, offer_ids)
       IN  /\ offer_ids' = made.offer_ids
           /\ IF made.exc # "None"
              THEN /\ raise(made.exc)
                   /\ UNCHANGED <<stocks, ret>>
              ELSE /\ stocks' = made.stocks
                   /\ ret' = <<made.stocks>>
                   /\ pc' = "done"
                   /\ exc' = exc
    /\ UNCHANGED <<entry, watch_remnants, last_id, product_list, listed,
                   prices, chunks, requests, pages, lst, n>>

call_create_prices ==
    /\ pc = "call"
    /\ entry = "create_prices"
    /\ prices' = create_prices(watch_remnants, offer_ids)
    /\ ret' = <<prices'>>
    /\ pc' = "done"
    /\ UNCHANGED <<entry, watch_remnants, last_id, product_list, offer_ids,
                   listed, stocks, chunks, requests, pages, exc, lst, n>>

call_divide ==
    /\ pc = "call"
    /\ entry = "divide"
    /\ LET made == divide(lst, n)
       IN  IF made.exc # "None"
           THEN /\ raise(made.exc)
                /\ UNCHANGED <<chunks, ret>>
           ELSE /\ chunks' = made.chunks
                /\ ret' = <<made.chunks>>
                /\ pc' = "done"
                /\ exc' = exc
    /\ UNCHANGED <<entry, watch_remnants, last_id, product_list, offer_ids,
                   listed, stocks, prices, requests, pages, lst, n>>

CallInit ==
    /\ pc = "call"
    /\ \/ /\ entry \in {"create_stocks", "create_prices"}
          /\ watch_remnants \in SeqsUpTo(Records, MaxRecords)
          /\ offer_ids \in OfferIdLists
          /\ lst = <<>>
          /\ n = 0
       \/ /\ entry = "divide"
          /\ watch_remnants = <<>>
          /\ offer_ids = <<>>
          /\ lst \in SeqsUpTo({"a", "b"}, MaxLst)
          /\ n \in Sizes
    /\ listed = offer_ids
    /\ last_id = ""
    /\ product_list = <<>>
    /\ stocks = <<>>
    /\ prices = <<>>
    /\ chunks = <<>>
    /\ requests = <<>>
    /\ pages = <<>>
    /\ exc = "None"
    /\ ret = <<>>

CallNext ==
    \/ call_create_stocks
    \/ call_create_prices
    \/ call_divide

CallSpec == CallInit /\ [][CallNext]_vars

-----------------------------------------------------------------------------
(* What the claims speak of *)

\* the records of a feed whose code is c, in the order of the feed
WithCode(remnants, c) == SelectSeq(remnants, LAMBDA w : str(w.Kod) = c)

\* the entries of an update list for the offer id c, in order
ForOffer(updates, c) == SelectSeq(updates, LAMBDA u : u.offer_id = c)

\* a quantity that is neither ">10" nor an integer literal
Malformed(count) ==
    /\ count # <<">", "1", "0">>
    /\ LET digits == IF count # <<>> /\ Head(count) \in {"+", "-"}
                     THEN Tail(count) ELSE count
       IN  digits = <<>> \/ \E k \in 1..Len(digits) : digits[k] \notin Digit

\* record i of the feed is the first with its code and the code is in ids
Matched(remnants, ids, i) ==
    /\ In(str(remnants[i].Kod), ids)
    /\ \A j \in 1..(i - 1) : remnants[j].Kod # remnants[i].Kod

\* the external calls of one kind, in order
Calls(api) == SelectSeq(requests, LAMBDA r : r.api = api)

Batches(api) == [i \in 1..Len(Calls(api)) |-> Calls(api)[i].arg]

Failed == \E i \in 1..Len(requests) : ~requests[i].ok

\* the items accumulated after the first i answers
Accumulated(i) == Len(Concat([k \in 1..i |-> pages[k].items]))

\* get_offer_ids has returned
Enumerated == pc # "get_offer_ids" /\ \A i \in 1..Len(Calls("get_product_list")) :
                                         Calls("get_product_list")[i].ok

StocksReturned == entry = "create_stocks" /\ pc = "done"

PricesReturned == entry = "create_prices" /\ pc = "done"

-----------------------------------------------------------------------------
(* C1 *)

\* C1: the list create_stocks returns is as long as the list of offer ids it
\* was given, holds every one of these ids exactly once and no other id; an
\* id that a record matches carries the quantity of the first such record,
\* every other id the stock 0.
C1_EveryOfferIdOnce ==
    StocksReturned =>
        /\ Len(stocks) = Len(listed)
        /\ \A i \in 1..Len(stocks) : In(stocks[i].offer_id, listed)
        /\ \A k \in 1..Len(listed) :
              LET mine == ForOffer(stocks, listed[k])
                  recs == WithCode(watch_remnants, listed[k])
              IN  /\ Len(mine) = 1
                  /\ mine[1].stock = IF recs = <<>> THEN 0
                                     ELSE stock_of(recs[1]).val

\* two records share a known code while another known id has no record
C1_Witness ==
    /\ StocksReturned
    /\ Len(listed) = 3
    /\ Len(watch_remnants) = 2
    /\ watch_remnants[1].Kod = watch_remnants[2].Kod
    /\ In(str(watch_remnants[1].Kod), listed)

(* C2 *)

\* C2: in main the price list holds one entry for every supplier record
\* whose code is among the offer ids get_offer_ids returned, in the order of
\* the feed.
C2_MainPricesAgainstListed ==
    (entry = "main" /\ pc \in {"update_price", "done"}) =>
        LET known == SelectSeq(watch_remnants, LAMBDA w : In(str(w.Kod), listed))
        IN  /\ Len(prices) = Len(known)
            /\ \A i \in 1..Len(known) : prices[i].offer_id = str(known[i].Kod)

(* C3 *)

\* C3: after create_stocks has returned or raised, the caller's list of
\* offer ids holds what it held before the call.
C3_CallerListUntouched ==
    (entry = "create_stocks" /\ pc \in {"done", "raised"}) => offer_ids = listed

(* C4 *)

\* C4: for a code that several records share and that is among the offer
\* ids, create_prices returns one entry per such record, in the order of the
\* feed, and create_stocks returns exactly one entry, made from the first of
\* these records.
C4_DuplicateCodes ==
    \A c \in {str(code) : code \in Codes} :
        LET recs == WithCode(watch_remnants, c)
        IN  (Len(recs) >= 2 /\ In(c, listed)) =>
                /\ PricesReturned =>
                      /\ Len(ForOffer(prices, c)) = Len(recs)
                      /\ \A i \in 1..Len(recs) :
                            ForOffer(prices, c)[i] = price_of(recs[i])
                /\ StocksReturned =>
                      /\ Len(ForOffer(stocks, c)) = 1
                      /\ ForOffer(stocks, c)[1].stock = stock_of(recs[1]).val

\* create_prices has returned for a feed of two records with one known code
\* and two different prices
C4_Witness ==
    /\ PricesReturned
    /\ Len(watch_remnants) = 2
    /\ watch_remnants[1].Kod = watch_remnants[2].Kod
    /\ watch_remnants[1].Tsena # watch_remnants[2].Tsena
    /\ In(str(watch_remnants[1].Kod), listed)
    /\ Len(prices) = 2

(* C5 *)

\* C5: the first listing call is given the empty cursor and every later one
\* the cursor the call before it returned; the accumulated item count equals
\* the reported total after the last call of a finished enumeration and
\* after no earlier call, so get_offer_ids returns after exactly the first
\* call that reaches equality and, as long as none does, is still in its
\* loop; it returns one offer id per accumulated item.
C5_StopsAtFirstEquality ==
    LET calls == Calls("get_product_list")
    IN  /\ calls # <<>> => calls[1].arg = ""
        /\ \A i \in 2..Len(calls) : calls[i].arg = pages[i - 1].last_id
        /\ \A i \in 1..Len(pages) :
              (Accumulated(i) = pages[i].total) <=> (i = Len(pages) /\ Enumerated)
        /\ (pc # "get_offer_ids" /\ ~Enumerated) => ~calls[Len(calls)].ok
        /\ Enumerated =>
              /\ Len(calls) = Len(pages)
              /\ Len(pages) >= 1
              /\ listed = [i \in 1..Len(product_list) |-> product_list[i].offer_id]
              /\ product_list = Concat([k \in 1..Len(pages) |-> pages[k].items])

\* an enumeration of two calls, the second given the cursor of the first
C5_Witness ==
    /\ Enumerated
    /\ Len(pages) = 2
    /\ Len(listed) = 101
    /\ Calls("get_product_list")[2].arg = "100"

(* C6 *)

\* C6: the stock batches are submitted in the order of the stock list: every
\* batch holds between 1 and 100 entries, the batches submitted so far make
\* up the head of the list, and once the stock phase has ended without a
\* failure their concatenation is the whole list.
C6_StockBatches ==
    LET sent == Batches("update_stocks")
    IN  /\ \A i \in 1..Len(sent) : Len(sent[i]) \in 1..100
        /\ Len(Concat(sent)) <= Len(stocks)
        /\ Concat(sent) = SubSeq(stocks, 1, Len(Concat(sent)))
        /\ (/\ entry \in {"main", "upload_stocks"}
            /\ pc \in {"create_prices", "update_price", "return", "done"})
           => Concat(sent) = stocks

\* upload_stocks has returned after a full batch and a shorter one
C6_Witness ==
    /\ entry = "upload_stocks"
    /\ pc = "done"
    /\ Len(Batches("update_stocks")) = 2
    /\ Len(Batches("update_stocks")[1]) = 100
    /\ Len(Batches("update_stocks")[2]) = 1

(* C7 *)

\* C7: a failed external call is the last call of the run: the run has
\* ended with the exception, the driver has returned nothing, and from then
\* on no call is added and the calls made before stay as they were.
C7_FailureAborts ==
    /\ [](Failed => /\ ~requests[Len(requests)].ok
                    /\ \A i \in 1..(Len(requests) - 1) : requests[i].ok
                    /\ pc \in {"except", "raised"}
                    /\ exc = "HTTPError"
                    /\ ret = <<>>)
    /\ [][Failed => (requests' = requests /\ ret' = ret)]_vars

\* the second stock batch fails after the first was submitted
C7_Witness ==
    /\ Failed
    /\ Len(Calls("update_stocks")) = 2
    /\ Calls("update_stocks")[1].ok
    /\ ~Calls("update_stocks")[2].ok

(* C8 *)

\* C8: every entry of the list create_stocks returns has a stock that is a
\* nonnegative integer.
C8_StocksNonnegative ==
    StocksReturned => \A i \in 1..Len(stocks) : stocks[i].stock \in Nat

(* C9 *)

\* C9: divide fails with an error for every size that is zero or negative,
\* whatever the list; it never ends without one for such a size.
C9_NonPositiveSizeFails ==
    (entry = "divide" /\ pc # "call" /\ n <= 0) => (pc = "raised" /\ exc # "None")

(* C10 *)

\* C10: a stock batch is submitted only after get_offer_ids has returned and
\* the whole stock list is built; when the quantity of a matched record is
\* malformed the run ends with ValueError and no stock batch submitted; a
\* malformed quantity of a record that is not matched does not end the run.
C10_NoBatchBeforeStocksBuilt ==
    LET sent == Calls("update_stocks")
        bad  == \E i \in 1..Len(watch_remnants) :
                    /\ Matched(watch_remnants, listed, i)
                    /\ Malformed(watch_remnants[i].Kolichestvo)
    IN  (entry \in {"main", "upload_stocks"}) =>
            /\ sent # <<>> =>
                  /\ Enumerated
                  /\ Len(stocks) = Len(listed)
                  /\ \A k \in 1..Len(listed) : Len(ForOffer(stocks, listed[k])) = 1
            /\ bad => sent = <<>>
            /\ (bad /\ pc \notin {"get_offer_ids", "download_stock", "create_stocks"})
                  => (pc \in {"except", "raised"} /\ exc = "ValueError")
            /\ exc = "ValueError" => bad

\* a run that ended with its stock batches submitted although a later record
\* of an already matched code has a malformed quantity
C10_Witness ==
    /\ entry = "upload_stocks"
    /\ pc = "done"
    /\ Calls("update_stocks") # <<>>
    /\ Len(watch_remnants) = 2
    /\ watch_remnants[1].Kod = watch_remnants[2].Kod
    /\ In(str(watch_remnants[1].Kod), listed)
    /\ Malformed(watch_remnants[2].Kolichestvo)

====
